---- MODULE Spec2Model ----
(***************************************************************************)
(* Model of the download organizer: the watch-mode script                  *)
(* (02_watchdog_descargas.py) and the Typer CLI (03_typer_organizador.py). *)
(* The state is the directory tree of the downloads folder, the program    *)
(* that is running on it (none, the CLI sweep, the watch-mode initial      *)
(* sweep, the watch loop) and the queue of watchdog events in flight.      *)
(* Spec is the programs on a tree; SpecPlan applies the planning functions *)
(* (classification, destination, one relocation) on their own to inputs   *)
(* drawn by its Init.                                                      *)
(***************************************************************************)
EXTENDS Integers, Sequences, FiniteSets, TLC

VARIABLES
    fs,         \* regular files: path -> [fecha, lineas]
    dirs,       \* directories (sequences of names below the root)
    pc,         \* "inactivo" | "cli" | "inicial" | "vigilando" | "salida"
    recursivo,  \* CLI option --recursivo
    dry_run,    \* CLI option --dry-run
    tardio,     \* whether the build's rglob lists a directory's subdirectories
                \* after its files were yielded: "si", "no", or "sin_fijar"
                \* while no run has used rglob
    cola,       \* entries of the directory being iterated, not yet yielded
    pila,       \* rglob: directories still to visit
    total,      \* total / total_encontrados
    movidos,    \* movidos / total_movidos
    eventos,    \* watchdog events queued for the handler
    observador, \* the Observer thread: "sin_crear" | "activo" | "unido"
    externos,   \* number of things the environment did so far
    corridas,   \* number of program runs started so far
    ultimo,     \* ghost: the relocation the last step attempted, if any
    despacho,   \* ghost: the event the last step dispatched, if any
    corrida,    \* ghost: the current / last sweep and the last dry-run
    calculo     \* ghost: the last application of one of the planning
                \* functions on its own (classification, destination, name)

vars == <<fs, dirs, pc, recursivo, dry_run, tardio, cola, pila, total, movidos,
          eventos, observador, externos, corridas, ultimo, despacho, corrida, calculo>>

----------------------------------------------------------------------------
(* Bounds *)

MaxArchivos == 2
MaxExternos == 1
MaxCorridas == 2

----------------------------------------------------------------------------
(* Module-level configuration *)

RAIZ == << >>

Ruta(dir, stem, ext) == [dir |-> dir, stem |-> stem, ext |-> ext]

FICHERO_LOG == Ruta(RAIZ, "_watchdog_descargas", ".log")

EXTENSIONES_TEMPORALES == {".crdownload", ".part", ".tmp"}

EXT_DOCS == {".pdf", ".txt", ".doc", ".docx", ".ppt", ".pptx", ".vtt", ".odt",
             ".rtf", ".epub", ".md", ".srt"}
EXT_IMG == {".jpg", ".jpeg", ".png", ".gif", ".bmp", ".tiff", ".webp"}
EXT_VIDEO == {".mp4", ".mkv", ".avi", ".mov", ".wmv", ".flv", ".webm"}
EXT_COMP == {".zip", ".rar", ".7z", ".gz", ".tar", ".bz2", ".xz"}
EXT_DATOS == {".xls", ".xlsx", ".xlsm", ".ods", ".csv", ".tsv", ".sql", ".sqlite",
              ".db", ".mdb", ".accdb", ".dump", ".bak", ".parquet", ".feather",
              ".orc"}
EXT_SCRIPTS == {".py", ".ipynb", ".js", ".ts", ".json", ".rs", ".c", ".cpp", ".cxx",
                ".h", ".hpp", ".html", ".htm", ".css", ".sh", ".bat", ".ps1"}

\* The CLI's own copies of the two sets that differ from the watch-mode script.
EXT_DOCS_CLI == {".pdf", ".txt", ".doc", ".docx", ".ppt", ".pptx"}
EXT_SCRIPTS_CLI == {".py", ".ipynb", ".js", ".ts", ".rs", ".c", ".cpp", ".cxx",
                    ".h", ".hpp", ".html", ".htm", ".css", ".sh", ".bat", ".ps1"}

MESES_ES == <<"enero", "febrero", "marzo", "abril", "mayo", "junio", "julio",
              "agosto", "septiembre", "octubre", "noviembre", "diciembre">>

\* str.lower() and str.upper(), letter by letter (ASCII letters; the
\* suffixes of the model have no others).
MAYUSCULAS == "ABCDEFGHIJKLMNOPQRSTUVWXYZ"
MINUSCULAS == "abcdefghijklmnopqrstuvwxyz"

LETRAS_MAYUSCULAS ==
    {"A", "B", "C", "D", "E", "F", "G", "H", "I", "J", "K", "L", "M",
     "N", "O", "P", "Q", "R", "S", "T", "U", "V", "W", "X", "Y", "Z"}

LETRAS_MINUSCULAS ==
    {"a", "b", "c", "d", "e", "f", "g", "h", "i", "j", "k", "l", "m",
     "n", "o", "p", "q", "r", "s", "t", "u", "v", "w", "x", "y", "z"}

minuscula(c) ==
    IF c \in LETRAS_MAYUSCULAS
    THEN LET i == CHOOSE i \in 1..26 : SubSeq(MAYUSCULAS, i, i) = c
         IN SubSeq(MINUSCULAS, i, i)
    ELSE c

RECURSIVE lower_letras(_)
lower_letras(s) ==
    IF s = "" THEN "" ELSE minuscula(SubSeq(s, 1, 1)) \o lower_letras(Tail(s))

\* str.lower(): a string without upper-case letters is its own value.
lower(s) ==
    IF \A i \in 1..Len(s) : SubSeq(s, i, i) \notin LETRAS_MAYUSCULAS
    THEN s
    ELSE lower_letras(s)

mayuscula(c) ==
    IF c \in LETRAS_MINUSCULAS
    THEN LET i == CHOOSE i \in 1..26 : SubSeq(MINUSCULAS, i, i) = c
         IN SubSeq(MAYUSCULAS, i, i)
    ELSE c

RECURSIVE upper(_)
upper(s) == IF s = "" THEN "" ELSE mayuscula(SubSeq(s, 1, 1)) \o upper(Tail(s))

\* The suffix with its first letter in upper case.
Capital(s) ==
    IF Len(s) < 2 THEN s
    ELSE SubSeq(s, 1, 1) \o mayuscula(SubSeq(s, 2, 2)) \o SubSeq(s, 3, Len(s))

\* The suffixes of the category sets of either program.
Conocidas ==
    EXT_DATOS \cup EXT_DOCS \cup EXT_IMG \cup EXT_VIDEO \cup EXT_COMP
       \cup EXT_SCRIPTS \cup EXT_DOCS_CLI \cup EXT_SCRIPTS_CLI

\* An extension written without its leading dot.
SinPunto(e) == Tail(e)

\* The suffixes to classify: those of the sets in three spellings and
\* without the dot, and some that are in no set (the empty suffix of a file
\* without extension too).
Extensiones ==
    Conocidas \cup {upper(e) : e \in Conocidas} \cup {Capital(e) : e \in Conocidas}
       \cup {SinPunto(e) : e \in Conocidas}
       \cup EXTENSIONES_TEMPORALES \cup {upper(e) : e \in EXTENSIONES_TEMPORALES}
       \cup {Capital(e) : e \in EXTENSIONES_TEMPORALES}
       \cup {"", ".xyz", ".XYZ", ".log", ".pdfx", "."}

\* The same without lowering the suffix.
categoria_sin_lower(sufijo) ==
    LET s == sufijo IN
    IF s \in EXT_DATOS THEN "datos"
    ELSE IF s \in EXT_DOCS THEN "documentos"
    ELSE IF s \in EXT_IMG THEN "imagenes"
    ELSE IF s \in EXT_VIDEO THEN "videos"
    ELSE IF s \in EXT_COMP THEN "comprimidos"
    ELSE IF s \in EXT_SCRIPTS THEN "scripts"
    ELSE "otros"

categoria_para_extension(sufijo) ==
    LET s == lower(sufijo) IN
    IF s \in EXT_DATOS THEN "datos"
    ELSE IF s \in EXT_DOCS THEN "documentos"
    ELSE IF s \in EXT_IMG THEN "imagenes"
    ELSE IF s \in EXT_VIDEO THEN "videos"
    ELSE IF s \in EXT_COMP THEN "comprimidos"
    ELSE IF s \in EXT_SCRIPTS THEN "scripts"
    ELSE "otros"

categoria_para_extension_cli(sufijo) ==
    LET s == lower(sufijo) IN
    IF s \in EXT_DATOS THEN "datos"
    ELSE IF s \in EXT_DOCS_CLI THEN "documentos"
    ELSE IF s \in EXT_IMG THEN "imagenes"
    ELSE IF s \in EXT_VIDEO THEN "videos"
    ELSE IF s \in EXT_COMP THEN "comprimidos"
    ELSE IF s \in EXT_SCRIPTS_CLI THEN "scripts"
    ELSE "otros"

----------------------------------------------------------------------------
(* The filesystem: pathlib / os / shutil on the tree <<fs, dirs>> *)

\* Path.name
Nombre(p) == p.stem \o p.ext

\* The path of a file read as a sequence of names, as a directory's is.
ComoDir(p) == Append(p.dir, Nombre(p))

\* Path.exists(): a regular file or a directory has that path.
existe(f, d, p) == p \in DOMAIN f \/ ComoDir(p) \in d

\* Path.is_file()
is_file(f, p) == p \in DOMAIN f

Prefijos(d) == {SubSeq(d, 1, n) : n \in 1..Len(d)}

\* Path.mkdir(parents=True, exist_ok=True) raises when a name on the way is
\* taken by a regular file.
mkdir_falla(f, d) == \E q \in DOMAIN f : ComoDir(q) \in Prefijos(d)

mkdir(ds, d) == ds \cup Prefijos(d)

\* shutil.move onto a path that is no directory: os.rename, which replaces
\* an existing file at the destination.
move(f, src, dst) ==
    [p \in (DOMAIN f \ {src}) \cup {dst} |-> IF p = dst THEN f[src] ELSE f[p]]

quitar(f, p) == [q \in DOMAIN f \ {p} |-> f[q]]

----------------------------------------------------------------------------
(* Destination planning *)

\* A modification date, datetime.fromtimestamp(st_mtime).date().
Fecha(a, m, dd) == [anio |-> a, mes |-> m, dia |-> dd]

\* The date of "now" (the mtime a write gives the log file).
HOY == Fecha(2024, 3, 20)

\* The half-month with day 15 on the wrong side.
quincena_14(fecha) == IF fecha.dia < 15 THEN "1-15" ELSE "16-31"

quincena(fecha) == IF fecha.dia <= 15 THEN "1-15" ELSE "16-31"

\* destino_para_archivo, relative to the root; MESES_ES is indexed from 0 in
\* the source and from 1 here.
destino_para_archivo(categoria, fecha) ==
    <<categoria, ToString(fecha.anio), MESES_ES[(fecha.mes - 1) + 1], quincena(fecha)>>

\* The names taken in a directory: its files and its subdirectories.
Ocupados(f, d, carpeta) ==
    {Nombre(q) : q \in {r \in DOMAIN f : r.dir = carpeta}}
    \cup {dd[Len(dd)] : dd \in {e \in d : Len(e) = Len(carpeta) + 1
                                          /\ SubSeq(e, 1, Len(carpeta)) = carpeta}}

\* while destino.exists(): destino = carpeta / f"{stem}_{contador}{suffix}"
RECURSIVE bucle_destino(_, _, _, _, _)
bucle_destino(f, d, archivo, destino, contador) ==
    IF existe(f, d, destino)
    THEN bucle_destino(f, d, archivo,
                       Ruta(destino.dir, archivo.stem \o "_" \o ToString(contador), archivo.ext),
                       contador + 1)
    ELSE destino

\* The destination without the loop that looks for a free name.
destino_sin_bucle(f, d, carpeta, archivo) == Ruta(carpeta, archivo.stem, archivo.ext)

destino_libre(f, d, carpeta, archivo) ==
    bucle_destino(f, d, archivo, Ruta(carpeta, archivo.stem, archivo.ext), 1)

----------------------------------------------------------------------------
(* The log *)

Linea(tipo, src, dst) == [tipo |-> tipo, src |-> src, dst |-> dst]

\* escribir_log when open() always succeeds.
escribir_log_sin_fallo(f, d, linea) ==
    IF FICHERO_LOG \in DOMAIN f
    THEN [f EXCEPT ![FICHERO_LOG] =
              [@ EXCEPT !.fecha = HOY, !.lineas = Append(@, linea)]]
    ELSE [p \in DOMAIN f \cup {FICHERO_LOG} |->
              IF p = FICHERO_LOG
              THEN [fecha |-> HOY, lineas |-> <<linea>>]
              ELSE f[p]]

\* escribir_log: open(FICHERO_LOG, "a") creates the file when it is missing
\* and appends one line; the line's timestamp is left out.  open() raises
\* when the path of the log is a directory, and the except clause drops
\* the exception: nothing is written.
escribir_log(f, d, linea) ==
    IF ComoDir(FICHERO_LOG) \in d
    THEN f
    ELSE IF FICHERO_LOG \in DOMAIN f
    THEN [f EXCEPT ![FICHERO_LOG] =
              [@ EXCEPT !.fecha = HOY, !.lineas = Append(@, linea)]]
    ELSE [p \in DOMAIN f \cup {FICHERO_LOG} |->
              IF p = FICHERO_LOG
              THEN [fecha |-> HOY, lineas |-> <<linea>>]
              ELSE f[p]]

\* The lines of the log file of the root.
Log(f) == IF FICHERO_LOG \in DOMAIN f THEN f[FICHERO_LOG].lineas ELSE << >>

----------------------------------------------------------------------------
(* One relocation.  suc is what the environment does to the file while it *)
(* is being relocated.                                                     *)

Sucesos == {"normal", "desaparece_antes", "desaparece_stat", "desaparece_mover", "permiso"}

\* The environment acts MaxExternos times at most: a download, a rename, or
\* an interference with a relocation of a sweep.  What it does to the file of
\* an event while the event is handled belongs to the step that raised the
\* event and is not counted again.
Permitido(suc) == suc = "normal" \/ externos < MaxExternos

Contado(suc) == IF suc = "normal" THEN externos ELSE externos + 1

\* The outcome of one relocation: the tree after it, whether an exception
\* leaves the function, and what the attempt did.
Resultado(res, exc, f, d, dst, existia, ocupados) ==
    [res |-> res, exc |-> exc, fs |-> f, dirs |-> d, dst |-> dst,
     existia |-> existia, ocupados |-> ocupados]

\* The directories mkdir(parents=True) creates before it fails on a name
\* that is a regular file.
mkdir_parcial(f, ds, d) ==
    ds \cup {e \in Prefijos(d) :
                \A q \in DOMAIN f : ComoDir(q) \in Prefijos(d) => Len(e) < Len(ComoDir(q))}

\* ManejadorDescargas.mover_y_organizar
mover_y_organizar(f, d, ruta, suc) ==
    IF suc = "desaparece_antes" \/ ~existe(f, d, ruta)
    THEN Resultado("ausente", FALSE, quitar(f, ruta), d, ruta, FALSE, {})
    ELSE IF suc = "desaparece_stat"
    THEN Resultado("fallo", TRUE, quitar(f, ruta), d, ruta, FALSE, {})
    ELSE
      LET carpeta == destino_para_archivo(categoria_para_extension(lower(ruta.ext)),
                                          f[ruta].fecha)
      IN IF mkdir_falla(f, carpeta)
         THEN Resultado("fallo", TRUE, f, mkdir_parcial(f, d, carpeta), ruta, FALSE, {})
         ELSE
           LET d2 == mkdir(d, carpeta)
               destino == destino_libre(f, d2, carpeta, ruta)
               f2 == escribir_log(f, d2, Linea("MOVER", ruta, destino))
               ocup == Ocupados(f2, d2, carpeta)
           IN CASE suc = "desaparece_mover" ->
                     Resultado("fallo", TRUE, quitar(f2, ruta), d2, destino,
                               destino \in DOMAIN f2, ocup)
                [] suc = "permiso" ->
                     Resultado("fallo", TRUE, f2, d2, destino, destino \in DOMAIN f2, ocup)
                [] OTHER ->
                     Resultado("movido", FALSE, move(f2, ruta, destino), d2, destino,
                               destino \in DOMAIN f2, ocup)

\* mover_y_organizar cut by a KeyboardInterrupt of the main thread, after
\* mkdir (line 203) or after escribir_log (line 215), in both cases before
\* shutil.move (line 216): the file stays where it is.
mover_interrumpido(f, d, ruta, punto) ==
    LET carpeta == destino_para_archivo(categoria_para_extension(lower(ruta.ext)),
                                        f[ruta].fecha)
        d2 == mkdir(d, carpeta)
        destino == destino_libre(f, d2, carpeta, ruta)
        f2 == IF punto = "log" THEN escribir_log(f, d2, Linea("MOVER", ruta, destino))
              ELSE f
    IN Resultado("interrumpido", TRUE, f2, d2, destino, destino \in DOMAIN f2,
                 Ocupados(f2, d2, carpeta))

\* The body of organizar's loop for one file that is not temporary; a file
\* that is gone before the generator's is_file() is not yielded at all.
cuerpo_organizar(f, d, archivo, dry, suc) ==
    IF suc = "desaparece_antes"
    THEN Resultado("ausente", FALSE, quitar(f, archivo), d, archivo, FALSE, {})
    ELSE IF suc = "desaparece_stat"
    THEN Resultado("fallo", TRUE, quitar(f, archivo), d, archivo, FALSE, {})
    ELSE
      LET carpeta == destino_para_archivo(categoria_para_extension_cli(lower(archivo.ext)),
                                          f[archivo].fecha)
      IN IF mkdir_falla(f, carpeta)
         THEN Resultado("fallo", TRUE, f, mkdir_parcial(f, d, carpeta), archivo, FALSE, {})
         ELSE
           LET d2 == mkdir(d, carpeta)
               destino == destino_libre(f, d2, carpeta, archivo)
               ocup == Ocupados(f, d2, carpeta)
           IN CASE dry ->
                     Resultado("simulado", FALSE, f, d2, destino, destino \in DOMAIN f, ocup)
                [] ~dry /\ suc = "desaparece_mover" ->
                     Resultado("fallo", TRUE, quitar(f, archivo), d2, destino,
                               destino \in DOMAIN f, ocup)
                [] ~dry /\ suc = "permiso" ->
                     Resultado("fallo", TRUE, f, d2, destino, destino \in DOMAIN f, ocup)
                [] OTHER ->
                     Resultado("movido", FALSE, move(f, archivo, destino), d2, destino,
                               destino \in DOMAIN f, ocup)

----------------------------------------------------------------------------
(* The trees the programs start from, and the files the environment adds *)

F1 == Fecha(2024, 3, 10)

Archivo(ruta, fecha) == [ruta |-> ruta, fecha |-> fecha]

CARPETA_IMG == <<"imagenes", "2024", "marzo", "1-15">>

\* The files a starting tree is drawn from.
Candidatos ==
    { Archivo(Ruta(RAIZ, "photo", ".jpg"), F1),
      Archivo(Ruta(RAIZ, "x", ".part"), HOY),
      Archivo(Ruta(CARPETA_IMG, "photo", ".jpg"), F1) }

\* The files that are downloaded while the programs run.
Descargas ==
    { Archivo(Ruta(RAIZ, "photo", ".jpg"), F1),
      Archivo(Ruta(RAIZ, "y", ".TMP"), HOY) }

\* The name a finished download is renamed to.
NombreFinal(p) == Ruta(p.dir, p.stem, ".PDF")

ArbolDe(S) ==
    [fs |-> [p \in {a.ruta : a \in S} |->
                LET a == CHOOSE b \in S : b.ruta = p
                IN [fecha |-> a.fecha, lineas |-> << >>]],
     dirs |-> {RAIZ} \cup UNION {Prefijos(a.ruta.dir) : a \in S}]

\* The check of the extension without lower().
EsTemporalExacta(p) == p.ext \in EXTENSIONES_TEMPORALES

\* archivo.suffix.lower() in EXTENSIONES_TEMPORALES
EsTemporal(p) == lower(p.ext) \in EXTENSIONES_TEMPORALES

\* The subdirectories of a directory.
Subdirs(ds, d) == {e \in ds : Len(e) = Len(d) + 1 /\ SubSeq(e, 1, Len(d)) = d}

\* The regular files of a directory.
ArchivosDe(f, d) == {p \in DOMAIN f : p.dir = d}

----------------------------------------------------------------------------
(* Ghost records *)

SinIntento ==
    [quien |-> "nadie", ruta |-> FICHERO_LOG, suc |-> "normal", res |-> "nada",
     dst |-> FICHERO_LOG, existia |-> FALSE, ocupados |-> {}, intactos |-> TRUE,
     lineas |-> << >>, aborta |-> FALSE]

\* What one relocation attempt did: r is its outcome, f0 the files before it
\* and f1 the files after it and after its caller's error handling.
Intento(quien, ruta, suc, r, f0, f1, aborta) ==
    [quien |-> quien, ruta |-> ruta, suc |-> suc, res |-> r.res, dst |-> r.dst,
     existia |-> r.existia, ocupados |-> r.ocupados,
     intactos |-> \A q \in DOMAIN f0 \ {ruta, FICHERO_LOG} :
                     q \in DOMAIN f1 /\ f1[q] = f0[q],
     lineas |-> SubSeq(Log(f1), Len(Log(f0)) + 1, Len(Log(f1))),
     aborta |-> aborta]

SinDespacho == [evento |-> [tipo |-> "ninguno"], llamadas |-> << >>]

SinBarrido ==
    [quien |-> "nadie", rec |-> FALSE, dry |-> FALSE, tar |-> FALSE,
     fs0 |-> << >>, dirs0 |-> {}, ext0 |-> 0,
     pares |-> {}, fallos |-> FALSE, abortado |-> FALSE, terminado |-> FALSE,
     restantes |-> {}, repetido |-> FALSE]

\* No sweep has completed since the tree last changed from outside.
Sucio == [ok |-> FALSE, quien |-> "nadie", rec |-> FALSE, tar |-> FALSE]

Barrido(quien, rec, dry, tar) ==
    [quien |-> quien, rec |-> rec, dry |-> dry, tar |-> tar, fs0 |-> fs, dirs0 |-> dirs,
     ext0 |-> externos,
     pares |-> {}, fallos |-> FALSE, abortado |-> FALSE, terminado |-> FALSE,
     restantes |-> {},
     repetido |-> corrida.limpio = [ok |-> TRUE, quien |-> quien, rec |-> rec, tar |-> tar]]

Par(src, dst) == [src |-> src, dst |-> dst]

\* The sweep's record after one more relocation attempt.
Anotar(b, ruta, r) ==
    [b EXCEPT !.pares = IF r.res \in {"movido", "simulado"}
                        THEN @ \cup {Par(ruta, r.dst)} ELSE @,
              !.fallos = @ \/ r.res = "fallo"]

----------------------------------------------------------------------------
(* Initial states *)

\* No planning function was applied on its own.
SinCalculo == [op |-> "ninguno"]

\* The tree a program is started on, and no program running.
Arranque ==
    /\ \E S \in SUBSET Candidatos :
          /\ Cardinality(S) <= MaxArchivos
          /\ fs = ArbolDe(S).fs
          /\ dirs = ArbolDe(S).dirs
    /\ pc = "inactivo"
    /\ recursivo = FALSE
    /\ dry_run = FALSE
    /\ tardio = "sin_fijar"
    /\ cola = {}
    /\ pila = << >>
    /\ total = 0
    /\ movidos = 0
    /\ eventos = << >>
    /\ observador = "sin_crear"
    /\ externos = 0
    /\ corridas = 0
    /\ ultimo = SinIntento
    /\ despacho = SinDespacho
    /\ corrida = [act |-> SinBarrido, sim |-> SinBarrido, limpio |-> Sucio]

Init ==
    /\ Arranque
    /\ calculo = SinCalculo

----------------------------------------------------------------------------
(* The CLI: organizar *)

\* A frame of rglob's walk: directories that were listed and are still to
\* visit, or a directory whose subdirectories are still to list.
Marco(fase, S) == [fase |-> fase, dirs |-> S]

\* organizar up to its loop.  iterdir() lists the root once; rglob("*")
\* starts its walk at the root.  tar is the pathlib of the build: whether
\* rglob lists a directory's subdirectories after its files were yielded;
\* it is the same in every run.  The record of a dry-run is kept while the
\* run is the real sweep of the tree and the options the dry-run had.
IniciarCLI(rec, dry, tar) ==
    /\ pc = "inactivo"
    /\ UNCHANGED calculo
    /\ UNCHANGED observador
    /\ corridas < MaxCorridas
    /\ corridas' = corridas + 1
    /\ pc' = "cli"
    /\ recursivo' = rec
    /\ dry_run' = dry
    /\ tar => rec
    /\ (rec /\ tardio # "sin_fijar") => (tar <=> tardio = "si")
    /\ tardio' = IF rec THEN (IF tar THEN "si" ELSE "no") ELSE tardio
    /\ cola' = IF rec THEN {} ELSE ArchivosDe(fs, RAIZ)
    /\ pila' = IF rec THEN <<Marco("pendientes", {RAIZ})>> ELSE << >>
    /\ total' = 0
    /\ movidos' = 0
    /\ corrida' =
         [act |-> Barrido("cli", rec, dry, tar),
          sim |-> IF /\ ~dry
                     /\ corrida.sim.quien = "cli"
                     /\ corrida.sim.rec = rec
                     /\ corrida.sim.tar = tar
                     /\ corrida.sim.ext0 = externos
                     /\ corrida.sim.dirs0 = dirs
                     /\ corrida.sim.fs0 = fs
                  THEN corrida.sim ELSE SinBarrido,
          limpio |-> Sucio]
    /\ ultimo' = SinIntento
    /\ despacho' = SinDespacho
    /\ UNCHANGED <<fs, dirs, eventos, externos>>

\* rglob visits the directories depth first, the entries of a directory in
\* any order: the files of a directory are yielded when it is visited, its
\* subdirectories are visited after them.  The walk goes on until it
\* reaches a directory that has files, or ends.
RECURSIVE Avanzar(_, _, _, _)
Avanzar(p, f, ds, tar) ==
    IF p = << >> THEN {[cola |-> {}, pila |-> << >>]}
    ELSE LET m == Head(p) IN
         IF m.fase = "subdirs"
         THEN Avanzar(<<Marco("pendientes", UNION {Subdirs(ds, d) : d \in m.dirs})>>
                         \o Tail(p), f, ds, tar)
         ELSE IF m.dirs = {} THEN Avanzar(Tail(p), f, ds, tar)
         ELSE UNION { LET hijos == IF tar THEN Marco("subdirs", {d})
                                   ELSE Marco("pendientes", Subdirs(ds, d))
                          resto == IF m.dirs = {d} THEN Tail(p)
                                   ELSE <<Marco("pendientes", m.dirs \ {d})>> \o Tail(p)
                          x == [cola |-> ArchivosDe(f, d),
                                pila |-> IF hijos.dirs = {} THEN resto
                                         ELSE <<hijos>> \o resto]
                      IN IF x.cola # {} THEN {x} ELSE Avanzar(x.pila, f, ds, tar)
                    : d \in m.dirs }

\* The loop asks iterar_archivos for its next path: rglob lists on when the
\* files of the last directory it listed are used up.
Siguientes ==
    IF cola # {} THEN {[cola |-> cola, pila |-> pila]}
    ELSE Avanzar(pila, fs, dirs, tardio = "si")

\* The generator's filter drops an entry that is no regular file any more,
\* and the loop skips a temporary download.
SaltarCLI ==
    /\ pc = "cli"
    /\ UNCHANGED calculo
    /\ UNCHANGED observador
    /\ \E x \in Siguientes : \E archivo \in x.cola :
          /\ ~is_file(fs, archivo) \/ EsTemporal(archivo)
          /\ cola' = x.cola \ {archivo}
          /\ pila' = x.pila
    /\ ultimo' = SinIntento
    /\ despacho' = SinDespacho
    /\ UNCHANGED <<fs, dirs, pc, recursivo, dry_run, tardio, total, movidos,
                   eventos, externos, corridas, corrida>>

EsPrefijo(d, e) == Len(d) <= Len(e) /\ SubSeq(e, 1, Len(d)) = d

\* What a walk at x has not yielded yet: the rest of the directory it is
\* in and the files below the directories it has still to visit.
PorVisitar(x) ==
    x.cola \cup
    {q \in DOMAIN fs :
        \E i \in DOMAIN x.pila : \E d \in x.pila[i].dirs :
           /\ EsPrefijo(d, q.dir)
           /\ x.pila[i].fase = "subdirs" => d # q.dir}

\* One pass of organizar's loop.  Nothing catches an exception: it ends the
\* command.  A dry-run does not call shutil.move, so nothing can fail there.
PasoCLI ==
    /\ pc = "cli"
    /\ UNCHANGED calculo
    /\ UNCHANGED observador
    /\ \E x \in Siguientes : \E archivo \in x.cola, suc \in Sucesos :
          /\ is_file(fs, archivo)
          /\ ~EsTemporal(archivo)
          /\ Permitido(suc)
          /\ dry_run => suc \notin {"desaparece_mover", "permiso"}
          /\ externos' = Contado(suc)
          /\ LET r == cuerpo_organizar(fs, dirs, archivo, dry_run, suc)
                 b == Anotar(corrida.act, archivo, r)
             IN /\ fs' = r.fs
                /\ dirs' = r.dirs
                /\ total' = IF r.res = "ausente" THEN total ELSE total + 1
                /\ ultimo' = Intento("cli", archivo, suc, r, fs, r.fs, r.exc)
                /\ IF r.exc
                   THEN /\ pc' = "salida"
                        /\ cola' = {}
                        /\ pila' = << >>
                        /\ movidos' = movidos
                        /\ corrida' =
                             [corrida EXCEPT
                                !.act = [b EXCEPT !.abortado = TRUE,
                                                  !.restantes = PorVisitar(x) \ {archivo}],
                                !.limpio = Sucio]
                   ELSE /\ pc' = pc
                        /\ cola' = x.cola \ {archivo}
                        /\ pila' = x.pila
                        /\ movidos' = IF dry_run \/ r.res = "ausente"
                                      THEN movidos ELSE movidos + 1
                        /\ corrida' = [corrida EXCEPT !.act = b]
    /\ despacho' = SinDespacho
    /\ UNCHANGED <<recursivo, dry_run, tardio, eventos, corridas>>

\* The loop is over: organizar prints its summary and returns.
FinCLI ==
    /\ pc = "cli"
    /\ UNCHANGED calculo
    /\ UNCHANGED observador
    /\ cola = {}
    /\ [cola |-> {}, pila |-> << >>] \in Siguientes
    /\ pc' = "salida"
    /\ cola' = {}
    /\ pila' = << >>
    /\ corrida' =
         [corrida EXCEPT
            !.act = [@ EXCEPT !.terminado = TRUE],
            !.limpio = IF dry_run THEN @
                       ELSE [ok |-> ~corrida.act.fallos /\ externos = corrida.act.ext0,
                             quien |-> "cli",
                             rec |-> recursivo, tar |-> corrida.act.tar]]
    /\ ultimo' = SinIntento
    /\ despacho' = SinDespacho
    /\ UNCHANGED <<fs, dirs, recursivo, dry_run, tardio, total, movidos, eventos,
                   externos, corridas>>

----------------------------------------------------------------------------
(* Watch mode: procesar_archivos_existentes *)

\* main up to the loop of procesar_archivos_existentes: iterdir() lists the
\* root once; the directories of the listing are skipped by the loop.
IniciarWatch ==
    /\ pc = "inactivo"
    /\ UNCHANGED calculo
    /\ UNCHANGED observador
    /\ corridas < MaxCorridas
    /\ corridas' = corridas + 1
    /\ pc' = "inicial"
    /\ recursivo' = FALSE
    /\ dry_run' = FALSE
    /\ tardio' = tardio
    /\ cola' = ArchivosDe(fs, RAIZ)
    /\ pila' = << >>
    /\ total' = 0
    /\ movidos' = 0
    /\ eventos' = << >>
    /\ corrida' = [act |-> Barrido("inicial", FALSE, FALSE, FALSE),
                   sim |-> SinBarrido,
                   limpio |-> Sucio]
    /\ ultimo' = SinIntento
    /\ despacho' = SinDespacho
    /\ UNCHANGED <<fs, dirs, externos>>

\* The loop skips the log file and the temporary downloads.
SaltarInicial ==
    /\ pc = "inicial"
    /\ UNCHANGED calculo
    /\ UNCHANGED observador
    /\ \E ruta \in cola :
          /\ ruta = FICHERO_LOG \/ EsTemporal(ruta)
          /\ cola' = cola \ {ruta}
    /\ ultimo' = SinIntento
    /\ despacho' = SinDespacho
    /\ UNCHANGED <<fs, dirs, pc, recursivo, dry_run, tardio, pila, total,
                   movidos, eventos, externos, corridas, corrida>>

\* One pass of the loop: mover_y_organizar inside try/except, the error
\* logged by the except branch.
PasoInicial ==
    /\ pc = "inicial"
    /\ UNCHANGED calculo
    /\ UNCHANGED observador
    /\ \E ruta \in cola, suc \in Sucesos :
          /\ ruta # FICHERO_LOG
          /\ ~EsTemporal(ruta)
          /\ Permitido(suc)
          /\ externos' = Contado(suc)
          /\ LET r == mover_y_organizar(fs, dirs, ruta, suc)
                 f1 == IF r.exc THEN escribir_log(r.fs, r.dirs, Linea("ERROR", ruta, ruta))
                       ELSE r.fs
             IN /\ fs' = f1
                /\ dirs' = r.dirs
                /\ total' = total + 1
                /\ movidos' = IF r.exc THEN movidos ELSE movidos + 1
                /\ ultimo' = Intento("inicial", ruta, suc, r, fs, f1, FALSE)
                /\ corrida' = [corrida EXCEPT !.act = Anotar(@, ruta, r)]
          /\ cola' = cola \ {ruta}
    /\ despacho' = SinDespacho
    /\ UNCHANGED <<pc, recursivo, dry_run, tardio, pila, eventos, corridas>>

\* The initial sweep is over: main starts the observer and waits.
FinInicial ==
    /\ pc = "inicial"
    /\ UNCHANGED calculo
    /\ observador' = "activo"
    /\ cola = {}
    /\ pc' = "vigilando"
    /\ eventos' = << >>
    /\ corrida' =
         [corrida EXCEPT
            !.act = [@ EXCEPT !.terminado = TRUE],
            !.limpio = [ok |-> ~corrida.act.fallos /\ externos = corrida.act.ext0,
                        quien |-> "inicial", rec |-> FALSE, tar |-> FALSE]]
    /\ ultimo' = SinIntento
    /\ despacho' = SinDespacho
    /\ UNCHANGED <<fs, dirs, recursivo, dry_run, tardio, cola, pila, total,
                   movidos, externos, corridas>>

\* KeyboardInterrupt while procesar_archivos_existentes runs: main calls it
\* outside its try (line 276), and the loop's "except Exception" does not
\* catch it, so the process ends there, the observer never created.  The
\* signal arrives between two passes of the loop or inside
\* mover_y_organizar.  It is an interference with the sweep and counts as
\* one of the things the environment does.
InterrumpirInicial ==
    /\ pc = "inicial"
    /\ UNCHANGED calculo
    /\ UNCHANGED observador
    /\ externos < MaxExternos
    /\ externos' = externos + 1
    /\ pc' = "salida"
    /\ \/ /\ ultimo' = SinIntento
          /\ UNCHANGED <<fs, dirs, total>>
       \/ \E ruta \in cola, punto \in {"mkdir", "log"} :
             /\ ruta # FICHERO_LOG
             /\ ~EsTemporal(ruta)
             /\ is_file(fs, ruta)
             /\ ~mkdir_falla(fs, destino_para_archivo(
                                    categoria_para_extension(lower(ruta.ext)),
                                    fs[ruta].fecha))
             /\ LET r == mover_interrumpido(fs, dirs, ruta, punto)
                IN /\ fs' = r.fs
                   /\ dirs' = r.dirs
                   /\ total' = total + 1
                   /\ ultimo' = Intento("inicial", ruta, "normal", r, fs, r.fs, TRUE)
    /\ cola' = {}
    /\ corrida' = [corrida EXCEPT !.act = [@ EXCEPT !.abortado = TRUE, !.fallos = TRUE],
                                  !.limpio = Sucio]
    /\ despacho' = SinDespacho
    /\ UNCHANGED <<recursivo, dry_run, tardio, pila, movidos, eventos, corridas>>

----------------------------------------------------------------------------
(* Watch mode: the event handler *)

Evento(tipo, src, dst, esdir) ==
    [tipo |-> tipo, src_path |-> src, dest_path |-> dst, is_directory |-> esdir]

\* _procesar_archivo_nuevo without its check of the temporary extensions.
procesar_sin_temporales(ruta_archivo) ==
    IF ruta_archivo = FICHERO_LOG THEN << >> ELSE <<ruta_archivo>>

\* _procesar_archivo_nuevo up to the call of mover_y_organizar: the paths
\* it calls mover_y_organizar with.
procesar_archivo_nuevo(ruta_archivo) ==
    IF ruta_archivo = FICHERO_LOG THEN << >>
    ELSE IF lower(ruta_archivo.ext) \in EXTENSIONES_TEMPORALES THEN << >>
    ELSE <<ruta_archivo>>

on_created(event) ==
    IF event.is_directory THEN << >> ELSE procesar_archivo_nuevo(event.src_path)

on_moved(event) ==
    IF event.is_directory THEN << >> ELSE procesar_archivo_nuevo(event.dest_path)

\* FileSystemEventHandler.dispatch: ManejadorDescargas overrides on_created
\* and on_moved only; the inherited on_modified and on_deleted do nothing.
dispatch(event) ==
    CASE event.tipo = "created" -> on_created(event)
      [] event.tipo = "moved" -> on_moved(event)
      [] OTHER -> << >>

\* The events the observer of the root (recursive=False) sees because of a
\* relocation: the category folder made in the root, the write to the log,
\* the file leaving the root.
Generados(f0, d0, f1, d1, ruta) ==
    LET nuevas == {d \in d1 \ d0 : Len(d) = 1} IN
    (IF nuevas # {}
     THEN LET d == CHOOSE e \in nuevas : TRUE
          IN <<Evento("created", Ruta(RAIZ, d[1], ""), Ruta(RAIZ, d[1], ""), TRUE)>>
     ELSE << >>)
    \o (IF Log(f1) # Log(f0)
        THEN <<Evento(IF FICHERO_LOG \in DOMAIN f0 THEN "modified" ELSE "created",
                      FICHERO_LOG, FICHERO_LOG, FALSE)>>
        ELSE << >>)
    \o (IF ruta \in DOMAIN f0 /\ ruta \notin DOMAIN f1
        THEN <<Evento("deleted", ruta, ruta, FALSE)>>
        ELSE << >>)

\* The observer's thread hands the next event to the handler.  An exception
\* of mover_y_organizar is caught and printed by _procesar_archivo_nuevo.
Despachar ==
    /\ pc = "vigilando"
    /\ UNCHANGED calculo
    /\ UNCHANGED observador
    /\ eventos # << >>
    /\ LET e == Head(eventos)
           llamadas == dispatch(e)
       IN /\ despacho' = [evento |-> e, llamadas |-> llamadas]
          /\ IF llamadas = << >>
             THEN /\ eventos' = Tail(eventos)
                  /\ ultimo' = SinIntento
                  /\ UNCHANGED <<fs, dirs>>
             ELSE \E suc \in Sucesos :
                     LET ruta == llamadas[1]
                         r == mover_y_organizar(fs, dirs, ruta, suc)
                     IN /\ fs' = r.fs
                        /\ dirs' = r.dirs
                        /\ ultimo' = Intento("evento", ruta, suc, r, fs, r.fs, FALSE)
                        /\ eventos' = Tail(eventos) \o Generados(fs, dirs, r.fs, r.dirs, ruta)
    /\ UNCHANGED <<pc, recursivo, dry_run, tardio, cola, pila, total, movidos,
                   externos, corridas, corrida>>

\* KeyboardInterrupt in main's loop: observador.stop(), then join().
Interrumpir ==
    /\ pc = "vigilando"
    /\ UNCHANGED calculo
    /\ observador' = "unido"
    /\ pc' = "salida"
    /\ eventos' = << >>
    /\ ultimo' = SinIntento
    /\ despacho' = SinDespacho
    /\ UNCHANGED <<fs, dirs, recursivo, dry_run, tardio, cola, pila, total,
                   movidos, externos, corridas, corrida>>

\* The process exits: nothing of it is left but the tree.  The record of a
\* completed dry-run is kept for the run that follows it.
Salir ==
    /\ pc = "salida"
    /\ UNCHANGED calculo
    /\ observador' = "sin_crear"
    /\ pc' = "inactivo"
    /\ recursivo' = FALSE
    /\ dry_run' = FALSE
    /\ tardio' = tardio
    /\ cola' = {}
    /\ pila' = << >>
    /\ total' = 0
    /\ movidos' = 0
    /\ eventos' = << >>
    /\ ultimo' = SinIntento
    /\ despacho' = SinDespacho
    /\ corrida' =
         [corrida EXCEPT
            !.act = SinBarrido,
            !.sim = IF corrida.act.dry /\ corrida.act.terminado
                       /\ externos = corrida.act.ext0
                    THEN corrida.act ELSE SinBarrido]
    /\ UNCHANGED <<fs, dirs, externos, corridas>>

----------------------------------------------------------------------------
(* The environment: downloads arriving in the root while watch mode runs *)

Avisar(e) == IF pc = "vigilando" THEN Append(eventos, e) ELSE eventos

\* A browser starts or finishes writing a new file in the root.
Descarga ==
    /\ pc \in {"inicial", "vigilando"}
    /\ UNCHANGED calculo
    /\ UNCHANGED observador
    /\ externos < MaxExternos
    /\ \E a \in Descargas :
          /\ ~existe(fs, dirs, a.ruta)
          /\ fs' = [p \in DOMAIN fs \cup {a.ruta} |->
                       IF p = a.ruta
                       THEN [fecha |-> a.fecha, lineas |-> << >>]
                       ELSE fs[p]]
          /\ eventos' = Avisar(Evento("created", a.ruta, a.ruta, FALSE))
    /\ externos' = externos + 1
    /\ corrida' = [corrida EXCEPT !.limpio = Sucio]
    /\ ultimo' = SinIntento
    /\ despacho' = SinDespacho
    /\ UNCHANGED <<dirs, pc, recursivo, dry_run, tardio, cola, pila, total,
                   movidos, corridas>>

\* A browser renames a finished download from its temporary name.
RenombrarExterno ==
    /\ pc \in {"inicial", "vigilando"}
    /\ UNCHANGED calculo
    /\ UNCHANGED observador
    /\ externos < MaxExternos
    /\ \E p \in ArchivosDe(fs, RAIZ) :
          /\ EsTemporal(p)
          /\ ~existe(fs, dirs, NombreFinal(p))
          /\ fs' = move(fs, p, NombreFinal(p))
          /\ eventos' = Avisar(Evento("moved", p, NombreFinal(p), FALSE))
    /\ externos' = externos + 1
    /\ corrida' = [corrida EXCEPT !.limpio = Sucio]
    /\ ultimo' = SinIntento
    /\ despacho' = SinDespacho
    /\ UNCHANGED <<dirs, pc, recursivo, dry_run, tardio, cola, pila, total,
                   movidos, corridas>>

----------------------------------------------------------------------------

Next ==
    \/ \E rec, dry, tar \in BOOLEAN : IniciarCLI(rec, dry, tar)
    \/ SaltarCLI
    \/ PasoCLI
    \/ FinCLI
    \/ IniciarWatch
    \/ SaltarInicial
    \/ PasoInicial
    \/ FinInicial
    \/ InterrumpirInicial
    \/ Despachar
    \/ Interrumpir
    \/ Salir
    \/ Descarga
    \/ RenombrarExterno

Spec == Init /\ [][Next]_vars

----------------------------------------------------------------------------
(* Properties *)

\* The temporary extensions in every spelling the model's files have.
TemporalesCualquierCaja == {".crdownload", ".part", ".tmp", ".Part", ".TMP"}

TieneExtensionTemporal(p) == p.ext \in TemporalesCualquierCaja

ConSufijo(p, k) == p.stem \o "_" \o ToString(k) \o p.ext

\* nombre is the first of name, stem_1.ext, stem_2.ext, ... that is not taken.
PrimerNombreLibre(ocupados, p, nombre) ==
    IF Nombre(p) \notin ocupados
    THEN nombre = Nombre(p)
    ELSE \E k \in 1..(Cardinality(ocupados) + 1) :
            /\ nombre = ConSufijo(p, k)
            /\ nombre \notin ocupados
            /\ \A j \in 1..(k - 1) : ConSufijo(p, j) \in ocupados

HuboIntento == ultimo.res \in {"movido", "fallo", "simulado"}

\* C1: a completed move never lands on a path that existed: the file is
\* stored in its destination directory under its own name or, when that is
\* taken, under the first free name stem_k.ext; every other file is left as
\* it was, so no file is overwritten.
C1_MoverNoSobrescribe ==
    ultimo.res = "movido" =>
        /\ ~ultimo.existia
        /\ ultimo.intactos
        /\ ultimo.dst \in DOMAIN fs
        /\ PrimerNombreLibre(ultimo.ocupados, ultimo.ruta, Nombre(ultimo.dst))

\* C1 witness: a file whose name was taken has been stored as stem_1.ext,
\* next to the file that has the name.
C1_Testigo ==
    /\ ultimo.res = "movido"
    /\ Nombre(ultimo.dst) = ConSufijo(ultimo.ruta, 1)
    /\ Ruta(ultimo.dst.dir, ultimo.ruta.stem, ultimo.ruta.ext) \in DOMAIN fs
    /\ ultimo.dst \in DOMAIN fs

\* C2: a dry-run sweep that nothing interfered with leaves the files, the
\* directories and the log as they were when it started.
C2_SimulacroNoCambia ==
    (corrida.act.dry /\ corrida.act.terminado /\ externos = corrida.act.ext0) =>
        (fs = corrida.act.fs0 /\ dirs = corrida.act.dirs0)

\* C3: a real sweep started from the tree a dry-run was started from, with
\* the same options, moves exactly the pairs the dry-run reported.
C3_SimulacroCoincide ==
    LET s == corrida.sim
        a == corrida.act
    IN (/\ s.quien = "cli"
        /\ a.quien = "cli"
        /\ ~a.dry
        /\ a.terminado
        /\ a.rec = s.rec
        /\ a.tar = s.tar
        /\ externos = s.ext0
        /\ a.dirs0 = s.dirs0
        /\ a.fs0 = s.fs0)
       => a.pares = s.pares

\* C4: a sweep that follows a completed sweep of the same program with the
\* same options, the tree untouched in between, moves no file.
C4_Idempotente ==
    (corrida.act.repetido /\ ~corrida.act.dry) => corrida.act.pares = {}

\* C5: a sweep does not end while files it has to process are left: what
\* it has not reached when it ends is temporary or the log file.
C5_Aislamiento ==
    \A p \in corrida.act.restantes : TieneExtensionTemporal(p) \/ p = FICHERO_LOG

\* C6: the log file is never moved by a relocation.
C6_LogNoSeOrganiza ==
    ultimo.res = "movido" => ultimo.ruta # FICHERO_LOG

\* C7: a relocation of watch mode leaves its entry in the log: the source
\* and destination of a completed move, the error of a failed one.
C7_IntentoRegistrado ==
    ultimo.quien \in {"inicial", "evento"} =>
        /\ ultimo.res = "movido" =>
              \E i \in DOMAIN ultimo.lineas :
                 ultimo.lineas[i] = Linea("MOVER", ultimo.ruta, ultimo.dst)
        /\ ultimo.res = "fallo" =>
              \E i \in DOMAIN ultimo.lineas :
                 ultimo.lineas[i] = Linea("ERROR", ultimo.ruta, ultimo.ruta)

\* C8: a file that vanishes while it is being relocated is skipped: no
\* error is logged for it and the run goes on.
C8_DesaparecidoOmitido ==
    ultimo.suc \in {"desaparece_antes", "desaparece_stat", "desaparece_mover"} =>
        /\ ~ultimo.aborta
        /\ \A i \in DOMAIN ultimo.lineas : ultimo.lineas[i].tipo # "ERROR"

\* The relocations the claim says an event triggers.
Dispara(e) ==
    IF e.tipo = "created" /\ ~e.is_directory /\ e.src_path # FICHERO_LOG
          /\ ~TieneExtensionTemporal(e.src_path)
    THEN <<e.src_path>>
    ELSE IF e.tipo = "moved" /\ ~e.is_directory /\ e.dest_path # FICHERO_LOG
               /\ ~TieneExtensionTemporal(e.dest_path)
    THEN <<e.dest_path>>
    ELSE << >>

\* C9: the handler starts one relocation for a created event of a file and
\* for a moved event whose destination is a file, unless the path is the
\* log file or temporary, and none for any other event.
C9_EventosQueDisparan ==
    despacho.evento.tipo # "ninguno" =>
        /\ despacho.llamadas = Dispara(despacho.evento)
        /\ IF despacho.llamadas = << >>
           THEN ultimo.res = "nada"
           ELSE ultimo.quien = "evento" /\ ultimo.ruta = despacho.llamadas[1]

\* C9 witness: the rename of x.part to its final name has been dispatched
\* and the final name, not x.part, has been relocated.
C9_Testigo ==
    /\ despacho.evento.tipo = "moved"
    /\ despacho.evento.src_path = Ruta(RAIZ, "x", ".part")
    /\ despacho.llamadas = <<NombreFinal(Ruta(RAIZ, "x", ".part"))>>
    /\ ultimo.res = "movido"
    /\ ultimo.ruta = NombreFinal(Ruta(RAIZ, "x", ".part"))

\* C10: a file with a temporary extension is never the source of a
\* relocation and is in no line of a log.
C10_TemporalIntacto ==
    /\ HuboIntento => ~TieneExtensionTemporal(ultimo.ruta)
    /\ \A par \in corrida.act.pares : ~TieneExtensionTemporal(par.src)
    /\ \A p \in DOMAIN fs : \A i \in DOMAIN fs[p].lineas :
          /\ ~TieneExtensionTemporal(fs[p].lineas[i].src)
          /\ ~TieneExtensionTemporal(fs[p].lineas[i].dst)

\* C10 witness: a sweep that moved a file has ended and the temporary file
\* that was in the root when it started is still there.
C10_Testigo ==
    /\ corrida.act.terminado
    /\ corrida.act.pares # {}
    /\ \E p \in DOMAIN fs :
          /\ TieneExtensionTemporal(p)
          /\ p.dir = RAIZ
          /\ p \in DOMAIN corrida.act.fs0

----------------------------------------------------------------------------
(* The planning functions on their own *)

Categorias ==
    {"datos", "documentos", "imagenes", "videos", "comprimidos", "scripts", "otros"}

Anios == {2023, 2024}

\* Every month and day of the month, and the years of the model.
Fechas == {Fecha(a, m, dd) : a \in Anios, m \in 1..12, dd \in 1..31}

\* One suffix of each category, in more than one letter case.
Muestras == {".csv", ".pdf", ".PDF", ".jpg", ".JPG", ".mp4", ".zip", ".py", ".xyz"}

Quietos == <<fs, dirs, pc, recursivo, dry_run, tardio, cola, pila, total, movidos,
             eventos, observador, externos, corridas, ultimo, despacho, corrida>>

\* A suffix and a modification date whose destination is to be computed.
EntradasDestino ==
    {[op |-> "destino?", sufijo |-> sufijo, fecha |-> fecha] :
        sufijo \in Muestras, fecha \in Fechas}

\* The destination directory both programs compute for a file with the
\* given suffix and modification date.
Planificar ==
    /\ calculo.op = "destino?"
    /\ calculo' =
          [op |-> "destino", sufijo |-> calculo.sufijo, fecha |-> calculo.fecha,
           categoria |-> categoria_para_extension(lower(calculo.sufijo)),
           categoria_cli |-> categoria_para_extension_cli(lower(calculo.sufijo)),
           carpeta |->
              destino_para_archivo(categoria_para_extension(lower(calculo.sufijo)),
                                   calculo.fecha),
           carpeta_cli |->
              destino_para_archivo(categoria_para_extension_cli(lower(calculo.sufijo)),
                                   calculo.fecha)]
    /\ UNCHANGED Quietos

EntradasCategoria == {[op |-> "categoria?", sufijo |-> e] : e \in Extensiones}

\* categoria_para_extension of both programs on a suffix.
Clasificar ==
    /\ calculo.op = "categoria?"
    /\ calculo' = [op |-> "categoria", sufijo |-> calculo.sufijo,
                   categoria |-> categoria_para_extension(calculo.sufijo),
                   categoria_cli |-> categoria_para_extension_cli(calculo.sufijo)]
    /\ UNCHANGED Quietos

\* Suffixes of files to relocate; ".md" and ".json" are in the sets of the
\* watch-mode script only.
MuestrasReubicar == {".pdf", ".PDF", ".jpg", ".csv", ".md", ".json", ".xyz"}

\* A file of the root to relocate: its suffix and date, the stems that are
\* taken in its destination directory, and what is at the path of the log
\* ("falta": nothing, "fichero": the log file, "directorio": a directory).
EntradasReubicar ==
    {[op |-> "reubicar?", archivo |-> Ruta(RAIZ, "a", e), fecha |-> fecha,
      tomados |-> T, log |-> l] :
        e \in MuestrasReubicar, fecha \in {F1, HOY}, T \in SUBSET {"a", "a_1"},
        l \in {"falta", "fichero", "directorio"}}

\* The tree of such an input; the taken names are put in the destination
\* directory of either program.
ArbolReubicar(x) ==
    LET carpetas ==
           {destino_para_archivo(categoria_para_extension(lower(x.archivo.ext)), x.fecha),
            destino_para_archivo(categoria_para_extension_cli(lower(x.archivo.ext)), x.fecha)}
        S == {Archivo(x.archivo, x.fecha)}
               \cup {Archivo(Ruta(c, t, x.archivo.ext), F1) : c \in carpetas, t \in x.tomados}
               \cup (IF x.log = "fichero" THEN {Archivo(FICHERO_LOG, HOY)} ELSE {})
    IN [fs |-> ArbolDe(S).fs,
        dirs |-> ArbolDe(S).dirs
                   \cup (IF x.log = "directorio" THEN {ComoDir(FICHERO_LOG)} ELSE {})]

\* mover_y_organizar and the body of organizar's loop on the file of the
\* input, each on the input's tree.
Reubicar ==
    /\ calculo.op = "reubicar?"
    /\ LET arbol == ArbolReubicar(calculo)
       IN calculo' =
             [op |-> "reubicado", archivo |-> calculo.archivo, fecha |-> calculo.fecha,
              tomados |-> calculo.tomados, log |-> calculo.log,
              watch |-> mover_y_organizar(arbol.fs, arbol.dirs, calculo.archivo, "normal"),
              cli |-> cuerpo_organizar(arbol.fs, arbol.dirs, calculo.archivo, FALSE,
                                       "normal")]
    /\ UNCHANGED Quietos

InitPlan ==
    /\ Arranque
    /\ DOMAIN fs = {}
    /\ calculo \in EntradasDestino \cup EntradasCategoria \cup EntradasReubicar

NextPlan ==
    \/ Planificar
    \/ Clasificar
    \/ Reubicar

SpecPlan == InitPlan /\ [][NextPlan]_vars

\* The final names a download can have in the root.
Definitivos ==
    {Ruta(RAIZ, "photo", ".jpg"), NombreFinal(Ruta(RAIZ, "x", ".part")),
     NombreFinal(Ruta(RAIZ, "y", ".TMP"))}

\* C11: watch mode leaves no download behind.  The observer's handler is
\* the only thing that relocates a file once the initial sweep is over, and
\* it acts on events only; so when the sweep hands over to the observer,
\* with no event queued, a file with a final name is in the root only if a
\* relocation of the sweep failed.
C11_TodoSeOrganiza ==
    [][(pc = "inicial" /\ pc' = "vigilando") =>
          \A p \in Definitivos : p \in DOMAIN fs' => corrida'.act.fallos]_vars

\* root/category/year/month-name/bucket for a category and a date, relative
\* to the root.
CarpetaEsperada(categoria, fecha) ==
    <<categoria, ToString(fecha.anio), MESES_ES[fecha.mes],
      IF fecha.dia \in 1..15 THEN "1-15" ELSE "16-31">>

Prioridad ==
    <<[nombre |-> "datos", exts |-> EXT_DATOS],
      [nombre |-> "documentos", exts |-> EXT_DOCS],
      [nombre |-> "imagenes", exts |-> EXT_IMG],
      [nombre |-> "videos", exts |-> EXT_VIDEO],
      [nombre |-> "comprimidos", exts |-> EXT_COMP],
      [nombre |-> "scripts", exts |-> EXT_SCRIPTS]>>

PrioridadCLI ==
    [Prioridad EXCEPT ![2].exts = EXT_DOCS_CLI, ![6].exts = EXT_SCRIPTS_CLI]

PrimeraCategoria(P, s) ==
    IF \E i \in DOMAIN P : s \in P[i].exts
    THEN P[CHOOSE i \in DOMAIN P :
              /\ s \in P[i].exts
              /\ \A j \in DOMAIN P : s \in P[j].exts => i <= j].nombre
    ELSE "otros"

\* C13: the category of a suffix is one of the seven, namely the first in
\* the order datos, documentos, imagenes, videos, comprimidos, scripts whose
\* set holds the lowercased suffix, and otros when none does; suffixes that
\* differ in letter case only have the same category.
C13_Clasificacion ==
    calculo.op = "categoria" =>
       /\ calculo.categoria \in Categorias
       /\ calculo.categoria_cli \in Categorias
       /\ calculo.categoria = PrimeraCategoria(Prioridad, lower(calculo.sufijo))
       /\ calculo.categoria_cli = PrimeraCategoria(PrioridadCLI, lower(calculo.sufijo))
       /\ \A e \in {calculo.sufijo, upper(calculo.sufijo), lower(calculo.sufijo),
                     Capital(lower(calculo.sufijo))} :
             /\ categoria_para_extension(e) = calculo.categoria
             /\ categoria_para_extension_cli(e) = calculo.categoria_cli

C13_Testigo ==
    /\ calculo.op = "categoria"
    /\ calculo.sufijo = ".Xlsx"
    /\ calculo.categoria = "datos"
    /\ calculo.categoria_cli = "datos"

\* C14: when a sweep that moves files has ended, movidos is the number of
\* files the sweep relocated, and it is at most the number of files counted
\* as scanned.
C14_ContadoresExactos ==
    (corrida.act.terminado /\ ~corrida.act.dry /\ pc \in {"salida", "vigilando"}) =>
       /\ movidos = Cardinality(corrida.act.pares)
       /\ movidos <= total

C16_SalidaOrdenada ==
    (pc = "salida" /\ corrida.act.quien = "inicial") =>
       /\ observador \in {"sin_crear", "unido"}
       /\ ultimo.res # "interrumpido"

\* C17: the watch-mode categoria_para_extension gives an extension of its
\* sets written without the dot the category it gives it with the dot.
C17_ConOSinPunto ==
    (calculo.op = "categoria" /\ \E e \in Conocidas : calculo.sufijo = SinPunto(e)) =>
       calculo.categoria = categoria_para_extension("." \o calculo.sufijo)

\* C18: in one sweep that moves files, no file is relocated a second time:
\* the destination of one relocation is not the source of another.
C18_UnaVezPorBarrido ==
    ~corrida.act.dry =>
       \A p, q \in corrida.act.pares : p.dst # q.src

\* C19: on the same tree, mover_y_organizar of watch mode and the loop body
\* of the CLI's organizar relocate a file to the same place: same category,
\* same destination directory, same final name.
C19_MismaReubicacion ==
    calculo.op = "reubicado" =>
       /\ calculo.watch.res = "movido"
       /\ calculo.cli.res = "movido"
       /\ calculo.watch.dst.dir[1] = calculo.cli.dst.dir[1]
       /\ calculo.watch.dst.dir = calculo.cli.dst.dir
       /\ Nombre(calculo.watch.dst) = Nombre(calculo.cli.dst)

====
